---- MODULE Spec2Model ----
(***************************************************************************)
(* State-machine model of the autonomous i18n agent: the orchestration     *)
(* loop (AutonomousAgent), the state store (StateManager), the error       *)
(* policy (ErrorHandler), the decision fallback (DecisionEngine), the      *)
(* tools' effects on the working tree and on the run's backup directory,   *)
(* and the stand-alone snapshot script (i18n-agent/backup.js).             *)
(***************************************************************************)
EXTENDS Integers, FiniteSets, Sequences, TLC

(***************************************************************************)
(* Bounds of the model.                                                    *)
(***************************************************************************)
\* config.maxIterations is 50 in the source; the model runs the same loop
\* with a smaller bound.
MaxIterations == 3
\* entries pushed on one array of the state store, and context objects
\* created after the first
MaxEntries == 2
\* iteration bound of the runs whose decisions all come from the fallback
ScenarioIterations == 8
\* iteration bound of the runs in which the oracle follows the pipeline
PipelineIterations == 5
\* number of phrases the analysis oracle reports for a file with strings
StringsPerFile == 3

(***************************************************************************)
(* Program constants.                                                      *)
(***************************************************************************)
MaxRetries == 3
RetryLimit == 3
BaseDelay == 1000
MaxDelay == 8000

(***************************************************************************)
(* The working tree.  A file's content is abstracted to its text (as       *)
(* first found, or rewritten by the transformation oracle), whether it is  *)
(* internationalized (contains useTranslation and t( ), and whether it     *)
(* carries the integration marker that IntegrateTool looks for             *)
(* (I18nProvider + lib/i18n in _app.jsx, LanguageSwitcher in Header).      *)
(***************************************************************************)
Files == {"Header", "App", "Switcher", "I18nLib", "Provider", "LocaleEs", "LocaleEn"}
\* files in which the string-finding oracle is taken to report phrases
SourceFiles == {"Header", "App"}
\* files under the directories discoverJSXFiles scans (components, pages, src)
JsxFiles == {"Header", "App", "Switcher", "Provider"}

Texts == {"original", "rewritten"}
Absent == [text |-> "none", i18n |-> FALSE, mark |-> FALSE]
Original == [text |-> "original", i18n |-> FALSE, mark |-> FALSE]
Generated == [text |-> "generated", i18n |-> TRUE, mark |-> TRUE]
Contents == [text : Texts, i18n : BOOLEAN, mark : BOOLEAN]

Exists(tree, f) == tree[f] # Absent

InitialTree == [f \in Files |-> IF f \in SourceFiles THEN Original ELSE Absent]
\* a working tree without any file, and one with a single component
EmptyTree == [f \in Files |-> Absent]
OneFileTree == [f \in Files |-> IF f = "Header" THEN Original ELSE Absent]
EmptyBackup == [f \in Files |-> Absent]

ActionNames == {"search", "analyze", "organize", "transform", "translate", "locale",
                "setup", "integrate", "validate", "test", "report", "retry",
                "rollback", "complete", "unknown"}

\* the initial value [] of context.stringsFound (truthy, not > 0, not === 0)
EmptyArray == -1
\* a result slot that is still null
Null == -1

VARIABLES
    pc,               \* position of AutonomousAgent.start / runMainLoop
    phase,            \* state.phase
    iterations,       \* runMainLoop: iterations
    maxIterations,    \* config.maxIterations
    timedOut,         \* Date.now() - startTime > config.timeout
    oracle,           \* "up": decisions come from the oracle; "down": from the fallback
    decision,         \* decision.action of the current iteration
    result,           \* value returned by executeAction
    failedAttempts,   \* state.failedAttempts: tool -> number of recorded failures
    ctxFiles,         \* state.context.filesToProcess
    ctxStrings,       \* state.context.stringsFound
    ctxAnalysis,      \* keys of state.context.analysisResults.files
    analysisResults,  \* state.analysisResults is set
    filesTransformed, \* state.transformResults.filesTransformed (Null while unset)
    stringsTranslated,\* state.translateResults.stringsTranslated (Null while unset)
    localeResults,    \* state.localeResults is set
    validFiles,       \* state.validateResults.validFiles (Null while unset)
    fs,               \* the working tree: file -> content
    backup,           \* the run's backup directory: file -> content
    handled,          \* outcome of the latest ErrorHandler.handleError call
    critTools,        \* tools whose execution has raised a critical error
    firstAlt,         \* tool -> failedAttempts[tool] at the first "alternative" outcome (0: none yet)
    lastError,        \* the error of the latest failed tool call: its tool, and isCriticalError(error)
    reported,         \* ReportTool.execute has been called in this run
    rollbacks,        \* number of RollbackTool.execute calls
    restoreErrors,    \* files whose restore failed in the latest rollback
    filesRestored,    \* filesRestored of the latest rollback's result
    unbacked,         \* existing files overwritten by a tool without a backup of their content
    \* ---- i18n-agent/backup.js (the stand-alone snapshot script) ----
    bTree,            \* the working tree the script runs in: file -> content
    bStore,           \* files under BACKUP_DIR: file -> content
    bMeta,            \* BACKUP_DIR/metadata.json: whether it exists, and its targets
    bTargets,         \* .i18n-agent/targets.json: whether it exists, and its list
    bSnap,            \* the tree as it was at the latest successful createBackup
    bLast,            \* the latest operation and what it returned
    \* ---- DecisionEngine.getFallbackDecision called on a given state ----
    fbState,          \* the state object passed to getFallbackDecision
    fbClock,          \* whether time has passed since the first call
    fbFirst,          \* action returned by the first call ("none" before it)
    fbSecond,         \* action returned by the second call ("none" before it)
    fbDecision,       \* decideNextAction on fbState: the oracle's response and the action returned
    \* ---- StateManager as an object graph (getState and the store's operations) ----
    stStore,          \* this.state: its phase, and the objects its fields refer to
    stHeap,           \* the objects: identity -> content (number of entries, or value)
    stSnap,           \* the object a getState() call returned (its phase and references)
    stNext,           \* number of context objects allocated so far
    stLast            \* the latest operation

agentVars == <<pc, phase, iterations, maxIterations, timedOut, oracle, decision, result, failedAttempts,
               ctxFiles, ctxStrings, ctxAnalysis, analysisResults, filesTransformed,
               stringsTranslated, localeResults, validFiles, fs, backup, handled,
               critTools, firstAlt, rollbacks, restoreErrors, filesRestored, unbacked,
               lastError, reported>>

scriptVars == <<bTree, bStore, bMeta, bTargets, bSnap, bLast>>

fallbackVars == <<fbState, fbClock, fbFirst, fbSecond, fbDecision>>

storeVars == <<stStore, stHeap, stSnap, stNext, stLast>>

vars == <<agentVars, scriptVars, fallbackVars, storeVars>>

(***************************************************************************)
(* StateManager.                                                           *)
(***************************************************************************)
Tools == ActionNames \cup {"main_loop"}

\* mutant: the failure is recorded twice
RecordFailedAttemptTwice(fa, tool) == [fa EXCEPT ![tool] = @ + 2]

\* recordFailedAttempt(tool, error): push one entry on failedAttempts[tool]
RecordFailedAttempt(fa, tool) == [fa EXCEPT ![tool] = @ + 1]

\* getRetryCount(tool)
GetRetryCount(fa, tool) == fa[tool]

\* shouldRetry(tool)
ShouldRetry(fa, tool) == fa[tool] < MaxRetries

\* shouldStop()
ShouldStop(ph) == ph = "completed" \/ ph = "failed"

\* StateManager.isGoalAchieved()
StoreGoalAchieved(ph) == ph = "completed"

(***************************************************************************)
(* ErrorHandler.                                                           *)
(***************************************************************************)
RECURSIVE Pow2(_)
Pow2(n) == IF n = 0 THEN 1 ELSE 2 * Pow2(n - 1)

Min(a, b) == IF a < b THEN a ELSE b

\* calculateRetryDelay(retryCount)
CalculateRetryDelay(retryCount) == Min(BaseDelay * Pow2(retryCount), MaxDelay)

\* mutant: the table is dropped, every tool gets the default
GetAlternativeActionDefault(tool) == "search"

\* getAlternativeAction(toolName)
GetAlternativeAction(tool) ==
    CASE tool = "search" -> "analyze"
      [] tool = "analyze" -> "transform"
      [] tool = "transform" -> "translate"
      [] tool = "translate" -> "locale"
      [] tool = "locale" -> "validate"
      [] tool = "validate" -> "complete"
      [] OTHER -> "search"

\* decideErrorHandling(errorAnalysis), followed by executeErrorHandling
DecideErrorHandling(tool, canRetry, retryCount, isCritical) ==
    IF isCritical
    THEN [tool |-> tool, strategy |-> "stop", action |-> "rollback", delay |-> 0,
          stop |-> TRUE, critical |-> TRUE, count |-> retryCount]
    ELSE IF canRetry /\ retryCount < RetryLimit
    THEN [tool |-> tool, strategy |-> "retry", action |-> tool,
          delay |-> CalculateRetryDelay(retryCount),
          stop |-> FALSE, critical |-> FALSE, count |-> retryCount]
    ELSE IF retryCount >= RetryLimit
    THEN [tool |-> tool, strategy |-> "alternative", action |-> GetAlternativeAction(tool),
          delay |-> 0, stop |-> FALSE, critical |-> FALSE, count |-> retryCount]
    ELSE [tool |-> tool, strategy |-> "skip", action |-> "continue", delay |-> 0,
          stop |-> FALSE, critical |-> FALSE, count |-> retryCount]

\* handleError(toolName, error): the failure is recorded first, then analysed
\* (canRetry and retryCount are read after the recording)
HandleError(fa, tool, isCritical) ==
    LET fa2 == RecordFailedAttempt(fa, tool)
    IN  DecideErrorHandling(tool, ShouldRetry(fa2, tool), GetRetryCount(fa2, tool), isCritical)

NoHandled == [tool |-> "none", strategy |-> "none", action |-> "none", delay |-> 0,
              stop |-> FALSE, critical |-> FALSE, count |-> 0]

\* no tool call has failed yet
NoError == [tool |-> "none", critical |-> FALSE]

(***************************************************************************)
(* Values returned by executeAction.                                       *)
(***************************************************************************)
\* a tool's result: whether it has a `files` key, the keys of `files`, and
\* its `stringsFound`
ToolResult(hasFiles, files, strings) ==
    [kind |-> "tool", hasFiles |-> hasFiles, files |-> files, stringsFound |-> strings,
     action |-> "none", stop |-> FALSE]

\* the value executeErrorHandling returns, which executeAction returns in turn
ErrorResult(h) ==
    [kind |-> "error", hasFiles |-> FALSE, files |-> {}, stringsFound |-> 0,
     action |-> h.action, stop |-> h.stop]

NoResult == [kind |-> "none", hasFiles |-> FALSE, files |-> {}, stringsFound |-> 0,
             action |-> "none", stop |-> FALSE]

(***************************************************************************)
(* DecisionEngine.getFallbackDecision(state).                              *)
(***************************************************************************)
\* mutant: the answer depends on the time of the call
GetFallbackDecisionByClock(ph, files, strings, analysisSet, transformSet, translateSet, localeSet) ==
    IF fbClock THEN "search" ELSE "analyze"

GetFallbackDecision(ph, files, strings, analysisSet, transformSet, translateSet, localeSet) ==
    IF ph = "initializing" THEN "search"
    ELSE IF Cardinality(files) = 0 THEN "search"
    ELSE IF Cardinality(files) > 0 /\ strings = 0 THEN "analyze"
    ELSE IF ph = "searching" /\ strings > 0 THEN "analyze"
    ELSE IF ph = "analyzing" /\ analysisSet THEN "transform"
    ELSE IF ph = "transforming" /\ transformSet THEN "translate"
    ELSE IF ph = "translating" /\ translateSet THEN "locale"
    ELSE IF ph = "locale" /\ localeSet THEN "validate"
    ELSE IF ph = "validating" THEN "complete"
    ELSE "search"

\* mutant: only the transformation is required
IsGoalAchievedTransformOnly(ft, st, vf) == ft > 0

\* AutonomousAgent.isGoalAchieved()
IsGoalAchieved(ft, st, vf) == ft > 0 /\ st > 0 /\ vf > 0

(***************************************************************************)
(* Groups of variables.                                                    *)
(***************************************************************************)
loopVars == <<iterations, maxIterations, timedOut, oracle, decision>>
resultVars == <<analysisResults, filesTransformed, stringsTranslated, localeResults, validFiles>>
contextVars == <<ctxFiles, ctxStrings, ctxAnalysis>>
diskVars == <<fs, backup, unbacked>>
rollbackVars == <<rollbacks, restoreErrors, filesRestored>>
errorVars == <<failedAttempts, handled, critTools, firstAlt, lastError>>

(***************************************************************************)
(* Initial state: the StateManager constructor, a working tree holding the *)
(* two source files, and no backup directory.                              *)
(***************************************************************************)
AgentStart ==
    /\ pc = "start"
    /\ phase = "initializing"
    /\ iterations = 0
    /\ timedOut = FALSE
    /\ decision = "none"
    /\ result = NoResult
    /\ failedAttempts = [t \in Tools |-> 0]
    /\ ctxFiles = {}
    /\ ctxStrings = EmptyArray
    /\ ctxAnalysis = {}
    /\ analysisResults = FALSE
    /\ filesTransformed = Null
    /\ stringsTranslated = Null
    /\ localeResults = FALSE
    /\ validFiles = Null
    /\ backup = EmptyBackup
    /\ handled = NoHandled
    /\ critTools = {}
    /\ firstAlt = [t \in Tools |-> 0]
    /\ rollbacks = 0
    /\ restoreErrors = {}
    /\ filesRestored = 0
    /\ unbacked = {}
    /\ lastError = NoError
    /\ reported = FALSE

\* a run on the project's working tree
AgentInit ==
    /\ AgentStart
    /\ fs = InitialTree

(***************************************************************************)
(* The snapshot script's state before its first command: some working     *)
(* tree, no backup directory.                                              *)
(***************************************************************************)
ScriptFiles == {"a", "b", "c"}
ScriptContents == {"c0", "c1"}
Missing == "absent"
NoMeta == [exists |-> FALSE, targets |-> {}]

ScriptIdle ==
    /\ bTree = [f \in ScriptFiles |-> Missing]
    /\ bStore = [f \in ScriptFiles |-> Missing]
    /\ bMeta = NoMeta
    /\ bTargets = [exists |-> FALSE, list |-> {}]
    /\ bSnap = [f \in ScriptFiles |-> Missing]
    /\ bLast = "none"

(***************************************************************************)
(* The state objects getFallbackDecision can be handed: the phases the     *)
(* agent and its tools set, the context's filesToProcess and stringsFound, *)
(* which result slots are set, and what validateResults holds.             *)
(***************************************************************************)
Phases == {"initializing", "analyzing", "searching", "organizing", "transforming",
           "transforming_complete", "translating", "locale", "locale_complete",
           "setup", "setup_complete", "integration", "integration_complete",
           "validating", "testing", "reporting", "completed", "failed"}

\* validateResults: null, or a result with invalidFiles = 0, or one with
\* invalidFiles > 0
ValidateOutcomes == {"unset", "clean", "invalid"}

FallbackStates ==
    {st \in [phase : Phases, files : {{}, {"Header"}},
             strings : {EmptyArray, 0, StringsPerFile},
             analysis : BOOLEAN, transform : BOOLEAN, translate : BOOLEAN,
             locale : BOOLEAN, validate : ValidateOutcomes] :
        \* executeValidate sets the phase and stores the tool's result
        st.phase = "validating" => st.validate # "unset"}

\* the state a new StateManager holds
FreshState == [phase |-> "initializing", files |-> {}, strings |-> EmptyArray,
               analysis |-> FALSE, transform |-> FALSE, translate |-> FALSE,
               locale |-> FALSE, validate |-> "unset"]

NotCalled == "not_called"

NoDecision == [kind |-> "none", action |-> NotCalled]

FallbackIdle ==
    /\ fbState = FreshState
    /\ fbClock = FALSE
    /\ fbFirst = NotCalled
    /\ fbSecond = NotCalled
    /\ fbDecision = NoDecision

(***************************************************************************)
(* StateManager's state as an object graph.  this.state holds the phase    *)
(* and references to the completedTasks array, the failedAttempts object,  *)
(* the memory object and the context object; an object's content is        *)
(* abstracted to a number (its entries, or the value last written).        *)
(***************************************************************************)
\* the n-th context object
ContextId(n) == <<"context", n>>
CompletedTasksId == <<"completedTasks", 0>>
FailedAttemptsId == <<"failedAttempts", 0>>
MemoryId == <<"memory", 0>>
ObjectIds ==
    {CompletedTasksId, FailedAttemptsId, MemoryId} \cup {ContextId(n) : n \in 0..MaxEntries}
StorePhases == {"initializing", "searching"}

\* the object graph a new StateManager holds
NewStore == [phase |-> "initializing", completedTasks |-> CompletedTasksId,
             failedAttempts |-> FailedAttemptsId, memory |-> MemoryId,
             context |-> ContextId(0)]
NoSnapshot == [phase |-> "none", completedTasks |-> CompletedTasksId,
               failedAttempts |-> FailedAttemptsId, memory |-> MemoryId,
               context |-> ContextId(0)]

StoreIdle ==
    /\ stStore = NewStore
    /\ stHeap = [o \in ObjectIds |-> 0]
    /\ stSnap = NoSnapshot
    /\ stNext = 1
    /\ stLast = "new"

Init ==
    /\ AgentInit
    /\ maxIterations = MaxIterations
    /\ oracle \in {"up", "down"}
    /\ ScriptIdle
    /\ FallbackIdle
    /\ StoreIdle

(***************************************************************************)
(* AutonomousAgent.initialize(): RollbackTool.createBackup() copies        *)
(* nothing; the phase is left at 'analyzing'.                              *)
(***************************************************************************)
Initialize ==
    /\ pc = "start"
    /\ pc' = "loop"
    /\ phase' = "analyzing"
    /\ UNCHANGED <<loopVars, result, resultVars, contextVars, diskVars, rollbackVars, errorVars>>
    /\ UNCHANGED <<reported, scriptVars, fallbackVars, storeVars>>

(***************************************************************************)
(* runMainLoop: the while condition, the timeout check and iterations++.   *)
(***************************************************************************)
\* mutants of the while condition: the iteration bound dropped; shouldStop() dropped
LoopContinuesUnbounded(ph, it, max) == ~ShouldStop(ph)

LoopContinuesNoStop(ph, it, max) == it < max

\* mutant: the loop also stops once a tool call has failed
LoopContinuesUnlessError(ph, it, max) ==
    ~ShouldStop(ph) /\ it < max /\ result.kind # "error"

LoopContinues(ph, it, max) == ~ShouldStop(ph) /\ it < max

LoopTest ==
    /\ pc = "loop"
    /\ IF LoopContinues(phase, iterations, maxIterations) /\ ~timedOut
       THEN /\ iterations' = iterations + 1
            /\ pc' = "decide"
       ELSE /\ iterations' = iterations
            /\ pc' = "exit"
    /\ UNCHANGED <<phase, maxIterations, timedOut, oracle, decision, result, resultVars,
                   contextVars, diskVars, rollbackVars, errorVars>>
    /\ UNCHANGED <<reported, scriptVars, fallbackVars, storeVars>>

\* time passes at the suspension points (the oracle call, the tool call):
\* the elapsed time comes to exceed config.timeout, and stays so
Tick ==
    /\ pc \in {"decide", "execute"}
    /\ ~timedOut
    /\ timedOut' = TRUE
    /\ UNCHANGED <<pc, phase, iterations, maxIterations, oracle, decision, result, resultVars, contextVars,
                   diskVars, rollbackVars, errorVars>>
    /\ UNCHANGED <<reported, scriptVars, fallbackVars, storeVars>>

(***************************************************************************)
(* DecisionEngine.decideNextAction(): the oracle may name any action (an   *)
(* unrecognised name is "unknown"); when the oracle is down the fallback   *)
(* decides.                                                                *)
(***************************************************************************)
Fallback ==
    GetFallbackDecision(phase, ctxFiles, ctxStrings, analysisResults,
                        filesTransformed # Null, stringsTranslated # Null, localeResults)

DecideNextAction ==
    /\ pc = "decide"
    /\ pc' = "execute"
    /\ IF oracle = "down"
       THEN decision' = Fallback
       ELSE decision' \in ActionNames
    /\ UNCHANGED <<phase, iterations, maxIterations, timedOut, oracle, result, resultVars,
                   contextVars, diskVars, rollbackVars, errorVars>>
    /\ UNCHANGED <<reported, scriptVars, fallbackVars, storeVars>>

(***************************************************************************)
(* executeAction: outcome of a tool call.                                  *)
(***************************************************************************)
\* the tool returned: executeAction returns its result
Succeed(res) ==
    /\ result' = res
    /\ UNCHANGED errorVars

\* the tool threw: executeAction's catch returns handleError(action, error)
Fail(tool, isCritical) ==
    LET h == HandleError(failedAttempts, tool, isCritical)
    IN  /\ failedAttempts' = RecordFailedAttempt(failedAttempts, tool)
        /\ handled' = h
        /\ result' = ErrorResult(h)
        /\ lastError' = [tool |-> tool, critical |-> isCritical]
        /\ critTools' = IF isCritical THEN critTools \cup {tool} ELSE critTools
        /\ firstAlt' = IF h.strategy = "alternative" /\ firstAlt[tool] = 0
                       THEN [firstAlt EXCEPT ![tool] = h.count]
                       ELSE firstAlt

(***************************************************************************)
(* Writes to the working tree.                                             *)
(***************************************************************************)
\* files of ws that exist and whose current content is not what the backup
\* directory holds for them: overwriting them loses content
Unbacked(tree, bk, ws) == {f \in ws : Exists(tree, f) /\ bk[f] # tree[f]}

(***************************************************************************)
(* executeSearch / SearchTool.execute                                      *)
(***************************************************************************)
DiscoverJSXFiles == {f \in JsxFiles : Exists(fs, f)}

ExecuteSearch ==
    /\ pc = "execute" /\ decision = "search"
    /\ pc' = "update"
    /\ phase' = "searching"
    /\ LET targets == IF ctxFiles = {} THEN DiscoverJSXFiles ELSE ctxFiles
       IN  \/ \E S \in SUBSET {f \in targets \cap SourceFiles : Exists(fs, f)} :
                /\ ctxFiles' = targets
                /\ Succeed(ToolResult(TRUE, S, 0))
           \/ \E isCritical \in BOOLEAN, c \in {ctxFiles, targets} :
                /\ ctxFiles' = c
                /\ Fail("search", isCritical)
    /\ UNCHANGED <<loopVars, resultVars, ctxStrings, ctxAnalysis, diskVars, rollbackVars>>
    /\ UNCHANGED <<reported, scriptVars, fallbackVars, storeVars>>

(***************************************************************************)
(* executeAnalyze / AnalyzeTool.execute                                    *)
(***************************************************************************)
ExecuteAnalyze ==
    /\ pc = "execute" /\ decision = "analyze"
    /\ pc' = "update"
    /\ phase' = "analyzing"
    /\ \/ /\ ctxFiles = {}
          /\ analysisResults' = TRUE
          /\ Succeed(ToolResult(TRUE, {}, 0))
          /\ UNCHANGED <<ctxStrings, ctxAnalysis>>
       \/ /\ ctxFiles # {}
          /\ \E S \in SUBSET {f \in ctxFiles \cap SourceFiles : Exists(fs, f)} :
                /\ ctxStrings' = StringsPerFile * Cardinality(S)
                /\ ctxAnalysis' = S
                /\ analysisResults' = TRUE
                /\ Succeed(ToolResult(TRUE, S, StringsPerFile * Cardinality(S)))
       \/ /\ \E f \in ctxFiles : Exists(fs, f)
          /\ \E isCritical \in BOOLEAN : Fail("analyze", isCritical)
          /\ UNCHANGED <<ctxStrings, ctxAnalysis, analysisResults>>
    /\ UNCHANGED <<loopVars, filesTransformed, stringsTranslated, localeResults, validFiles,
                   ctxFiles, diskVars, rollbackVars>>
    /\ UNCHANGED <<reported, scriptVars, fallbackVars, storeVars>>

(***************************************************************************)
(* executeOrganize / OrganizeTool.execute: agent.analysisResults is not    *)
(* a field of the autonomous agent, so there is nothing to organize.       *)
(***************************************************************************)
ExecuteOrganize ==
    /\ pc = "execute" /\ decision = "organize"
    /\ pc' = "update"
    /\ phase' = "organizing"
    /\ Succeed(ToolResult(FALSE, {}, 0))
    /\ UNCHANGED <<loopVars, resultVars, contextVars, diskVars, rollbackVars>>
    /\ UNCHANGED <<reported, scriptVars, fallbackVars, storeVars>>

(***************************************************************************)
(* executeTransform / TransformTool.execute, transformFile, createBackup   *)
(***************************************************************************)
\* what the transformation oracle can return for content c (c itself when
\* the call fails or the oracle changes nothing)
ClaudeOutputs(c) == {[text |-> w, i18n |-> b, mark |-> c.mark] : w \in Texts, b \in BOOLEAN}

\* a choice for one file: the oracle's output and whether writeFileSync fails
TransformChoices == [out : Contents, writeFails : BOOLEAN]

\* transformFile reaches createBackup
BacksUp(tree, f) == Exists(tree, f)
\* transformFile writes the updated content
Writes(tree, f, ch) == Exists(tree, f) /\ ch.out # tree[f] /\ ~ch.writeFails
\* transformFile returns success: true
TransformSucceeds(tree, f, ch) ==
    /\ Exists(tree, f)
    /\ \/ ch.out # tree[f] /\ ~ch.writeFails
       \/ ch.out = tree[f] /\ tree[f].i18n
\* transformFile throws (caught by execute, which records the file)
TransformThrows(tree, f, ch) == Exists(tree, f) /\ ch.out # tree[f] /\ ch.writeFails

\* createBackup(filePath, originalContent): the backup copy is (over)written
\* with the content the file has now
CreateBackup(bk, tree, f) == [bk EXCEPT ![f] = tree[f]]

ExecuteTransform ==
    /\ pc = "execute" /\ decision = "transform"
    /\ pc' = "update"
    /\ \E ch \in [ctxAnalysis -> TransformChoices] :
          /\ \A f \in ctxAnalysis : Exists(fs, f) => ch[f].out \in ClaudeOutputs(fs[f])
          /\ LET ok == {f \in ctxAnalysis : TransformSucceeds(fs, f, ch[f])}
                 thrown == {f \in ctxAnalysis : TransformThrows(fs, f, ch[f])}
             IN  /\ backup' = [f \in Files |->
                                  IF f \in ctxAnalysis /\ BacksUp(fs, f)
                                  THEN CreateBackup(backup, fs, f)[f] ELSE backup[f]]
                 /\ fs' = [f \in Files |->
                              IF f \in ctxAnalysis /\ Writes(fs, f, ch[f])
                              THEN ch[f].out ELSE fs[f]]
                 /\ filesTransformed' = Cardinality(ok)
                 /\ phase' = IF Cardinality(ok) > 0 THEN "transforming_complete"
                                                    ELSE "transforming"
                 /\ Succeed(ToolResult(TRUE, ok \cup thrown, 0))
    /\ UNCHANGED <<loopVars, analysisResults, stringsTranslated, localeResults, validFiles,
                   contextVars, unbacked, rollbackVars>>
    /\ UNCHANGED <<reported, scriptVars, fallbackVars, storeVars>>

(***************************************************************************)
(* executeTranslate / TranslateTool.execute                                *)
(***************************************************************************)
ExecuteTranslate ==
    /\ pc = "execute" /\ decision = "translate"
    /\ pc' = "update"
    /\ phase' = "translating"
    /\ stringsTranslated' = StringsPerFile * Cardinality(ctxAnalysis)
    /\ Succeed(ToolResult(FALSE, {}, 0))
    /\ UNCHANGED <<loopVars, analysisResults, filesTransformed, localeResults, validFiles,
                   contextVars, diskVars, rollbackVars>>
    /\ UNCHANGED <<reported, scriptVars, fallbackVars, storeVars>>

(***************************************************************************)
(* executeLocale / LocaleTool.execute: two writes, each of which may throw *)
(***************************************************************************)
\* the tree after writing generated content to the files ws
WriteGenerated(tree, ws) == [f \in Files |-> IF f \in ws THEN Generated ELSE tree[f]]

ExecuteLocale ==
    /\ pc = "execute" /\ decision = "locale"
    /\ pc' = "update"
    /\ \/ /\ fs' = WriteGenerated(fs, {"LocaleEs", "LocaleEn"})
          /\ unbacked' = unbacked \cup Unbacked(fs, backup, {"LocaleEs", "LocaleEn"})
          /\ localeResults' = TRUE
          /\ phase' = "locale_complete"
          /\ Succeed(ToolResult(TRUE, {"LocaleEs", "LocaleEn"}, 0))
       \/ \E isCritical \in BOOLEAN, written \in {{}, {"LocaleEs"}} :
             /\ fs' = WriteGenerated(fs, written)
             /\ unbacked' = unbacked \cup Unbacked(fs, backup, written)
             /\ localeResults' = localeResults
             /\ phase' = "locale"
             /\ Fail("locale", isCritical)
    /\ UNCHANGED <<loopVars, analysisResults, filesTransformed, stringsTranslated, validFiles,
                   contextVars, backup, rollbackVars>>
    /\ UNCHANGED <<reported, scriptVars, fallbackVars, storeVars>>

(***************************************************************************)
(* executeSetup / SetupTool.execute: two writes, each of which may throw   *)
(***************************************************************************)
ExecuteSetup ==
    /\ pc = "execute" /\ decision = "setup"
    /\ pc' = "update"
    /\ \/ /\ fs' = WriteGenerated(fs, {"I18nLib", "Provider"})
          /\ unbacked' = unbacked \cup Unbacked(fs, backup, {"I18nLib", "Provider"})
          /\ phase' = "setup_complete"
          /\ Succeed(ToolResult(TRUE, {"I18nLib", "Provider"}, 0))
       \/ \E isCritical \in BOOLEAN, written \in {{}, {"I18nLib"}} :
             /\ fs' = WriteGenerated(fs, written)
             /\ unbacked' = unbacked \cup Unbacked(fs, backup, written)
             /\ phase' = "setup"
             /\ Fail("setup", isCritical)
    /\ UNCHANGED <<loopVars, resultVars, contextVars, backup, rollbackVars>>
    /\ UNCHANGED <<reported, scriptVars, fallbackVars, storeVars>>

(***************************************************************************)
(* executeIntegrate / IntegrateTool.execute: three steps (pages/_app.jsx,  *)
(* LanguageSwitcher.jsx, Header.jsx); a throw at step n leaves the effects *)
(* of the steps before it.                                                 *)
(***************************************************************************)
\* step 1 writes _app.jsx unless it is absent or already integrated
AppWritten(tree) == Exists(tree, "App") /\ ~tree["App"].mark
\* step 2 creates the language switcher unless it exists
SwitcherWritten(tree) == ~Exists(tree, "Switcher")
\* step 3 writes Header.jsx unless it is absent or already has the switcher
HeaderWritten(tree) == Exists(tree, "Header") /\ ~tree["Header"].mark

\* the tree after the first n steps; hdr is the content step 3 writes
Integrated(tree, n, hdr) ==
    [f \in Files |->
        CASE f = "App" /\ n >= 1 /\ AppWritten(tree) -> [tree[f] EXCEPT !.mark = TRUE]
          [] f = "Switcher" /\ n >= 2 /\ SwitcherWritten(tree) -> Generated
          [] f = "Header" /\ n >= 3 /\ HeaderWritten(tree) -> hdr
          [] OTHER -> tree[f]]

\* the files the first n steps write
IntegrateWrites(tree, n) ==
    {f \in {"App"} : n >= 1 /\ AppWritten(tree)}
    \cup {f \in {"Switcher"} : n >= 2 /\ SwitcherWritten(tree)}
    \cup {f \in {"Header"} : n >= 3 /\ HeaderWritten(tree)}

\* step 3 adds the switcher import and element where its patterns match
HeaderOutputs(tree) == {tree["Header"], [tree["Header"] EXCEPT !.mark = TRUE]}

ExecuteIntegrate ==
    /\ pc = "execute" /\ decision = "integrate"
    /\ pc' = "update"
    /\ \/ \E hdr \in HeaderOutputs(fs) :
             /\ fs' = Integrated(fs, 3, hdr)
             /\ unbacked' = unbacked \cup Unbacked(fs, backup, IntegrateWrites(fs, 3))
             /\ phase' = IF Exists(fs, "App") THEN "integration_complete" ELSE "integration"
             /\ Succeed(ToolResult(TRUE, IntegrateWrites(fs, 3), 0))
       \/ \E isCritical \in BOOLEAN, n \in 0..2 :
             /\ fs' = Integrated(fs, n, fs["Header"])
             /\ unbacked' = unbacked \cup Unbacked(fs, backup, IntegrateWrites(fs, n))
             /\ phase' = "integration"
             /\ Fail("integrate", isCritical)
    /\ UNCHANGED <<loopVars, resultVars, contextVars, backup, rollbackVars>>
    /\ UNCHANGED <<reported, scriptVars, fallbackVars, storeVars>>

(***************************************************************************)
(* executeValidate / ValidateTool.execute: the tool reads                  *)
(* agent.transformResults, which the autonomous agent never sets, so it    *)
(* examines no file and attempts no fix.                                   *)
(***************************************************************************)
ValidatedFiles == {}

ExecuteValidate ==
    /\ pc = "execute" /\ decision = "validate"
    /\ pc' = "update"
    /\ phase' = "validating"
    /\ validFiles' = Cardinality(ValidatedFiles)
    /\ Succeed(ToolResult(TRUE, ValidatedFiles, 0))
    /\ UNCHANGED <<loopVars, analysisResults, filesTransformed, stringsTranslated, localeResults,
                   contextVars, diskVars, rollbackVars>>
    /\ UNCHANGED <<reported, scriptVars, fallbackVars, storeVars>>

(***************************************************************************)
(* executeTest / TestTool.execute: failures of the external commands are   *)
(* collected in the result, never thrown.                                  *)
(***************************************************************************)
ExecuteTest ==
    /\ pc = "execute" /\ decision = "test"
    /\ pc' = "update"
    /\ phase' = "testing"
    /\ Succeed(ToolResult(FALSE, {}, 0))
    /\ UNCHANGED <<loopVars, resultVars, contextVars, diskVars, rollbackVars>>
    /\ UNCHANGED <<reported, scriptVars, fallbackVars, storeVars>>

(***************************************************************************)
(* executeReport / ReportTool.execute: generateReport dereferences         *)
(* agent.targetLanguage, which the autonomous agent does not have; the     *)
(* TypeError's message matches the critical pattern 'cannot read property' *)
(* or not, depending on the runtime's wording.                             *)
(***************************************************************************)
ExecuteReport ==
    /\ pc = "execute" /\ decision = "report"
    /\ pc' = "update"
    /\ phase' = "reporting"
    /\ reported' = TRUE
    /\ \E isCritical \in BOOLEAN : Fail("report", isCritical)
    /\ UNCHANGED <<loopVars, resultVars, contextVars, diskVars, rollbackVars>>
    /\ UNCHANGED <<scriptVars, fallbackVars, storeVars>>

(***************************************************************************)
(* executeRetry                                                            *)
(***************************************************************************)
ExecuteRetry ==
    /\ pc = "execute" /\ decision = "retry"
    /\ pc' = "update"
    /\ Succeed(ToolResult(FALSE, {}, 0))
    /\ UNCHANGED <<phase, loopVars, resultVars, contextVars, diskVars, rollbackVars>>
    /\ UNCHANGED <<reported, scriptVars, fallbackVars, storeVars>>

(***************************************************************************)
(* executeRollback / RollbackTool.execute, cleanupBackup                   *)
(***************************************************************************)
\* findBackupFiles(backupDir)
FindBackupFiles(bk) == {f \in Files : Exists(bk, f)}

\* mutant: the first failure ends the loop over the backup files
RestoreUntilFailure(tree, bk, failed) ==
    [f \in Files |-> IF failed = {} /\ f \in FindBackupFiles(bk) THEN bk[f] ELSE tree[f]]

\* the tree after restoring every backup file except those in failed
Restore(tree, bk, failed) ==
    [f \in Files |-> IF f \in FindBackupFiles(bk) \ failed THEN bk[f] ELSE tree[f]]

\* cleanupBackup(backupDir): the whole directory is removed
CleanupBackup(bk) == EmptyBackup

\* the phase executeRollback sets
RollbackPhase == "failed"

ExecuteRollback ==
    /\ pc = "execute" /\ decision = "rollback"
    /\ pc' = "update"
    /\ phase' = RollbackPhase
    /\ rollbacks' = rollbacks + 1
    /\ IF FindBackupFiles(backup) = {}
       THEN /\ restoreErrors' = {}
            /\ filesRestored' = 0
            /\ UNCHANGED <<fs, backup>>
       ELSE \E failed \in SUBSET FindBackupFiles(backup) :
              /\ fs' = Restore(fs, backup, failed)
              /\ backup' = CleanupBackup(backup)
              /\ restoreErrors' = failed
              /\ filesRestored' = Cardinality(FindBackupFiles(backup) \ failed)
    /\ Succeed(ToolResult(FALSE, {}, 0))
    /\ UNCHANGED <<loopVars, resultVars, contextVars, unbacked>>
    /\ UNCHANGED <<reported, scriptVars, fallbackVars, storeVars>>

(***************************************************************************)
(* executeComplete                                                         *)
(***************************************************************************)
ExecuteComplete ==
    /\ pc = "execute" /\ decision = "complete"
    /\ pc' = "update"
    /\ phase' = "completed"
    /\ Succeed(ToolResult(FALSE, {}, 0))
    /\ UNCHANGED <<loopVars, resultVars, contextVars, diskVars, rollbackVars>>
    /\ UNCHANGED <<reported, scriptVars, fallbackVars, storeVars>>

(***************************************************************************)
(* executeAction, default case: throw new Error('Unknown action: ...')     *)
(***************************************************************************)
ExecuteUnknown ==
    /\ pc = "execute" /\ decision = "unknown"
    /\ pc' = "update"
    /\ Fail("unknown", FALSE)
    /\ UNCHANGED <<phase, loopVars, resultVars, contextVars, diskVars, rollbackVars>>
    /\ UNCHANGED <<reported, scriptVars, fallbackVars, storeVars>>

(***************************************************************************)
(* runMainLoop: updateStateFromResult(decision.action, result), then the   *)
(* goal check.                                                             *)
(***************************************************************************)
UpdateStateFromResult ==
    /\ pc = "update"
    /\ ctxFiles' = IF result.hasFiles THEN result.files ELSE ctxFiles
    /\ ctxStrings' = IF result.stringsFound # 0 THEN result.stringsFound ELSE ctxStrings
    /\ IF IsGoalAchieved(filesTransformed, stringsTranslated, validFiles)
       THEN /\ phase' = "completed"
            /\ pc' = "exit"
       ELSE /\ phase' = phase
            /\ pc' = "loop"
    /\ UNCHANGED <<loopVars, result, resultVars, ctxAnalysis, diskVars, rollbackVars, errorVars>>
    /\ UNCHANGED <<reported, scriptVars, fallbackVars, storeVars>>

(***************************************************************************)
(* runMainLoop returns stateManager.isGoalAchieved(); start() returns it.  *)
(***************************************************************************)
Return ==
    /\ pc = "exit"
    /\ pc' = "returned"
    /\ UNCHANGED <<phase, loopVars, result, resultVars, contextVars, diskVars, rollbackVars,
                   errorVars>>
    /\ UNCHANGED <<reported, scriptVars, fallbackVars, storeVars>>

Next ==
    \/ Initialize
    \/ LoopTest
    \/ Tick
    \/ DecideNextAction
    \/ ExecuteSearch
    \/ ExecuteAnalyze
    \/ ExecuteOrganize
    \/ ExecuteTransform
    \/ ExecuteTranslate
    \/ ExecuteLocale
    \/ ExecuteSetup
    \/ ExecuteIntegrate
    \/ ExecuteValidate
    \/ ExecuteTest
    \/ ExecuteReport
    \/ ExecuteRetry
    \/ ExecuteRollback
    \/ ExecuteComplete
    \/ ExecuteUnknown
    \/ UpdateStateFromResult
    \/ Return

Spec == Init /\ [][Next]_vars

(***************************************************************************)
(* i18n-agent/backup.js: createBackup() and restoreBackup(), run between   *)
(* arbitrary edits of the working tree.                                    *)
(***************************************************************************)
\* mutant: a target that already has a copy in BACKUP_DIR is not copied again
BackupCopyKeepOld(store, tree, targets) ==
    [f \in ScriptFiles |->
        IF f \in targets /\ tree[f] # Missing /\ store[f] = Missing THEN tree[f] ELSE store[f]]

\* createBackup's loop: every target that exists is copied to BACKUP_DIR
\* (fs.copyFileSync overwrites an older copy); absent targets are skipped
BackupCopy(store, tree, targets) ==
    [f \in ScriptFiles |-> IF f \in targets /\ tree[f] # Missing THEN tree[f] ELSE store[f]]

\* restoreBackup's loop: every target of the metadata that has a copy in
\* BACKUP_DIR is copied back; nothing is deleted
RestoreCopy(tree, store, targets) ==
    [f \in ScriptFiles |-> IF f \in targets /\ store[f] # Missing THEN store[f] ELSE tree[f]]

InitScript ==
    /\ AgentInit
    /\ maxIterations = MaxIterations
    /\ oracle = "up"
    /\ bTree \in [ScriptFiles -> ScriptContents \cup {Missing}]
    /\ bStore = [f \in ScriptFiles |-> Missing]
    /\ bMeta = NoMeta
    /\ bTargets \in [exists : BOOLEAN, list : SUBSET ScriptFiles]
    /\ bSnap = [f \in ScriptFiles |-> Missing]
    /\ bLast = "none"
    /\ FallbackIdle
    /\ StoreIdle

CreateBackupScript ==
    /\ IF ~bTargets.exists
       THEN /\ bLast' = "backup_false"
            /\ UNCHANGED <<bStore, bMeta, bSnap>>
       ELSE /\ bStore' = BackupCopy(bStore, bTree, bTargets.list)
            /\ bMeta' = [exists |-> TRUE, targets |-> bTargets.list]
            /\ bSnap' = bTree
            /\ bLast' = "backup_true"
    /\ UNCHANGED <<bTree, bTargets>>
    /\ UNCHANGED <<agentVars, fallbackVars, storeVars>>

RestoreBackupScript ==
    /\ IF ~bMeta.exists
       THEN /\ bLast' = "restore_false"
            /\ UNCHANGED bTree
       ELSE /\ bTree' = RestoreCopy(bTree, bStore, bMeta.targets)
            /\ bLast' = "restore_true"
    /\ UNCHANGED <<bStore, bMeta, bTargets, bSnap>>
    /\ UNCHANGED <<agentVars, fallbackVars, storeVars>>

\* between the script's commands anything may modify, create or delete a file
EditFile ==
    /\ \E f \in ScriptFiles, c \in ScriptContents \cup {Missing} :
          /\ c # bTree[f]
          /\ bTree' = [bTree EXCEPT ![f] = c]
    /\ bLast' = "edit"
    /\ UNCHANGED <<bStore, bMeta, bTargets, bSnap>>
    /\ UNCHANGED <<agentVars, fallbackVars, storeVars>>

NextScript ==
    \/ CreateBackupScript
    \/ RestoreBackupScript
    \/ EditFile

SpecScript == InitScript /\ [][NextScript]_vars

(***************************************************************************)
(* DecisionEngine.getFallbackDecision(state) as a function of the state    *)
(* object: it is called twice on one state, time passing in between.       *)
(***************************************************************************)
InitFallback ==
    /\ AgentInit
    /\ maxIterations = MaxIterations
    /\ oracle = "down"
    /\ ScriptIdle
    /\ fbState \in FallbackStates
    /\ fbClock = FALSE
    /\ fbFirst = NotCalled
    /\ fbSecond = NotCalled
    /\ fbDecision = NoDecision
    /\ StoreIdle

\* getFallbackDecision(state) on the state object st
FallbackOf(st) ==
    GetFallbackDecision(st.phase, st.files, st.strings, st.analysis, st.transform,
                        st.translate, st.locale)

CallFallback ==
    /\ fbDecision = NoDecision
    /\ fbSecond = NotCalled
    /\ IF fbFirst = NotCalled
       THEN fbFirst' = FallbackOf(fbState) /\ fbSecond' = fbSecond
       ELSE fbSecond' = FallbackOf(fbState) /\ fbFirst' = fbFirst
    /\ UNCHANGED <<fbState, fbClock, fbDecision>>
    /\ UNCHANGED <<agentVars, scriptVars, storeVars>>

\* time passes between the calls; the state object is the same
Elapse ==
    /\ fbDecision = NoDecision
    /\ ~fbClock
    /\ fbClock' = TRUE
    /\ UNCHANGED <<fbState, fbFirst, fbSecond, fbDecision>>
    /\ UNCHANGED <<agentVars, scriptVars, storeVars>>

\* what the oracle call can produce: a response holding a JSON object with
\* an action, a response from which only the loose pattern extracts an
\* action name, a response from which neither extracts one, or an exception
Responses ==
    [kind : {"json", "loose"}, action : ActionNames]
        \cup {[kind |-> "garbage", action |-> "none"], [kind |-> "raises", action |-> "none"]}


\* parseDecision(response): the JSON object's action, else the action the
\* loose pattern extracts, else 'search'
ParseDecision(resp) ==
    IF resp.kind \in {"json", "loose"} THEN resp.action ELSE "search"

\* decideNextAction() on the state object fbState, as the only call made
DecideOnState ==
    /\ fbDecision = NoDecision
    /\ fbFirst = NotCalled /\ ~fbClock
    /\ \E resp \in Responses :
          fbDecision' = [kind |-> resp.kind,
                         action |-> IF resp.kind = "raises"
                                    THEN FallbackOf(fbState)
                                    ELSE ParseDecision(resp)]
    /\ UNCHANGED <<fbState, fbClock, fbFirst, fbSecond>>
    /\ UNCHANGED <<agentVars, scriptVars, storeVars>>

NextFallback ==
    \/ CallFallback
    \/ Elapse
    \/ DecideOnState

SpecFallback == InitFallback /\ [][NextFallback]_vars

(***************************************************************************)
(* Properties of the orchestration loop.                                   *)
(***************************************************************************)
\* the goal predicate, as the specification states it
GoalPredicate == filesTransformed > 0 /\ stringsTranslated > 0 /\ validFiles > 0

\* C1: whatever the decisions and the tools' outcomes, runMainLoop starts at
\* most config.maxIterations iterations, one at a time, and starts none once
\* the elapsed time exceeds config.timeout.
C1_BoundedIterations ==
    /\ [](iterations <= maxIterations)
    /\ [][iterations' # iterations =>
            /\ iterations' = iterations + 1
            /\ iterations < maxIterations
            /\ ~timedOut]_vars

\* C1 witness: a run that the iteration bound alone has ended
C1_Witness ==
    pc = "returned" /\ iterations = maxIterations /\ ~timedOut /\ ~ShouldStop(phase)

\* C2 as stated: when runMainLoop has ended, phase = 'completed' if and only
\* if the goal predicate holds.
C2_Original == pc = "returned" => (phase = "completed" <=> GoalPredicate)

\* C2 amended: when runMainLoop has ended, phase = 'completed' if and only if
\* the goal predicate holds or the last action executed was 'complete'.
C2_CompletedIffGoalOrComplete ==
    pc = "returned" => (phase = "completed" <=> (GoalPredicate \/ decision = "complete"))

\* C2 witness: a run ended 'completed' by the 'complete' action, goal predicate false
C2_Witness ==
    pc = "returned" /\ phase = "completed" /\ decision = "complete" /\ ~GoalPredicate

\* C3 as stated: every run that has terminated has phase 'completed' or 'failed'.
C3_Claim == pc = "returned" => phase \in {"completed", "failed"}

\* C4: once phase is 'completed' or 'failed', no later step changes it.
C4_TerminalPhaseStable == [][ShouldStop(phase) => phase' = phase]_vars

\* C4 witness: a terminal phase with steps of the run still to come (the
\* update of the context, the goal check, the loop test, the return)
C4_Witness == phase = "failed" /\ pc = "update" /\ iterations < maxIterations

\* C5 as stated: a run in which a tool execution raised a critical error has
\* executed the rollback tool and has ended with phase = 'failed' (stated for
\* the runs that no timeout cut short).
C5_Claim ==
    (pc = "returned" /\ critTools # {} /\ ~timedOut) => (rollbacks > 0 /\ phase = "failed")

\* C6 as stated: when a run has ended with phase = 'failed', the working tree
\* is what it was before the run: same files, same contents (stated for the
\* runs whose rollback met no I/O failure).
C6_Claim ==
    (pc = "returned" /\ phase = "failed" /\ restoreErrors = {}) => fs = InitialTree

\* C9 as stated: no tool has overwritten an existing file whose current
\* content the run's backup directory did not hold.
C9_Claim == unbacked = {}

C7_RoundTrip ==
    bLast = "restore_true" =>
        \A f \in bMeta.targets : bSnap[f] # Missing => bTree[f] = bSnap[f]

\* C7 witness: a restore has succeeded over two targets, one that existed at
\* backup time and one that did not
C7_Witness ==
    /\ bLast = "restore_true"
    /\ \E f \in bMeta.targets : bSnap[f] # Missing /\ bTree[f] = bSnap[f]
    /\ \E f \in bMeta.targets : bSnap[f] = Missing

\* C8 as stated: a restore deletes exactly the files that exist when it runs
\* and did not exist at snapshot time.
C8_Claim ==
    [][bLast' = "restore_true" =>
          \A f \in ScriptFiles :
              (bTree[f] # Missing /\ bTree'[f] = Missing)
                  <=> (bTree[f] # Missing /\ bSnap[f] = Missing)]_vars

(***************************************************************************)
(* Properties of the error policy and of the loop's use of it.             *)
(***************************************************************************)
\* C11 as stated: for a tool that has failed with non-critical errors only,
\* the k-th 'retry' outcome carries the delay min(1000 * 2^(k-1), 8000):
\* 1000 first, then 2000, 4000, 8000, 8000.
C11_Claim ==
    (handled.strategy = "retry" /\ handled.tool \notin critTools) =>
        handled.delay = Min(BaseDelay * Pow2(failedAttempts[handled.tool] - 1), MaxDelay)

C13_Claim ==
    [][(/\ pc = "execute" /\ pc' = "update"
        /\ result'.kind = "error"
        /\ lastError'.critical
        /\ failedAttempts[decision] = 0) => failedAttempts'[decision] = 0]_vars

\* C14 as stated: after a failed tool execution, the next action dispatched
\* is the one the error policy returned for that failure.
C14_Claim ==
    [][(pc = "decide" /\ pc' = "execute" /\ result.kind = "error")
          => decision' = result.action]_vars

\* C15 as stated: a run in which a tool call raised an exception and which
\* reports failure has called RollbackTool.execute (stated for the runs that
\* no timeout cut short).
C15_Claim ==
    (pc = "returned" /\ lastError # NoError /\ ~StoreGoalAchieved(phase) /\ ~timedOut)
        => rollbacks > 0

C17_Claim == pc = "returned" => reported

\* C19 as stated: between two iterations of a run that the fallback decides
\* and in which no validation has taken place, getFallbackDecision returns
\* the action the artifacts call for.
C19_Claim ==
    (pc \in {"loop", "decide"} /\ oracle = "down" /\ validFiles = Null)
        => Fallback = IF ctxFiles = {} THEN "search"
                       ELSE IF ctxStrings = EmptyArray \/ ctxStrings = 0 THEN "analyze"
                       ELSE IF filesTransformed = Null THEN "transform"
                       ELSE IF stringsTranslated = Null THEN "translate"
                       ELSE IF ~localeResults THEN "locale"
                       ELSE "validate"

InitStore ==
    /\ AgentInit
    /\ maxIterations = MaxIterations
    /\ oracle = "up"
    /\ ScriptIdle
    /\ FallbackIdle
    /\ StoreIdle

\* the value an object graph denotes: every reference followed
Deep(obj) == [phase |-> obj.phase,
              completedTasks |-> stHeap[obj.completedTasks],
              failedAttempts |-> stHeap[obj.failedAttempts],
              memory |-> stHeap[obj.memory],
              context |-> stHeap[obj.context]]

\* array.push on the object o
Push(o) == [stHeap EXCEPT ![o] = @ + 1]

\* getState(): { ...this.state }, a new object with the same field values
GetState ==
    /\ stSnap' = stStore
    /\ stLast' = "getState"
    /\ UNCHANGED <<stStore, stHeap, stNext>>
    /\ UNCHANGED <<agentVars, scriptVars, fallbackVars>>

\* setPhase(phase): this.state.phase = phase
SetPhase ==
    /\ \E p \in StorePhases : stStore' = [stStore EXCEPT !.phase = p]
    /\ stLast' = "setPhase"
    /\ UNCHANGED <<stHeap, stSnap, stNext>>
    /\ UNCHANGED <<agentVars, scriptVars, fallbackVars>>

\* addCompletedTask(task): this.state.completedTasks.push(...)
AddCompletedTask ==
    /\ stHeap[stStore.completedTasks] < MaxEntries
    /\ stHeap' = Push(stStore.completedTasks)
    /\ stLast' = "addCompletedTask"
    /\ UNCHANGED <<stStore, stSnap, stNext>>
    /\ UNCHANGED <<agentVars, scriptVars, fallbackVars>>

\* recordFailedAttempt(tool, error): this.state.failedAttempts[tool].push(...)
RecordFailedAttemptInStore ==
    /\ stHeap[stStore.failedAttempts] < MaxEntries
    /\ stHeap' = Push(stStore.failedAttempts)
    /\ stLast' = "recordFailedAttempt"
    /\ UNCHANGED <<stStore, stSnap, stNext>>
    /\ UNCHANGED <<agentVars, scriptVars, fallbackVars>>

\* addToMemory(type, data): this.state.memory[type].push(...)
AddToMemory ==
    /\ stHeap[stStore.memory] < MaxEntries
    /\ stHeap' = Push(stStore.memory)
    /\ stLast' = "addToMemory"
    /\ UNCHANGED <<stStore, stSnap, stNext>>
    /\ UNCHANGED <<agentVars, scriptVars, fallbackVars>>

\* updateContext(updates): this.state.context = { ...this.state.context,
\* ...updates }, a new context object
UpdateContext ==
    /\ stNext < MaxEntries + 1
    /\ stStore' = [stStore EXCEPT !.context = ContextId(stNext)]
    /\ stHeap' = [stHeap EXCEPT ![ContextId(stNext)] = stHeap[stStore.context] + 1]
    /\ stNext' = stNext + 1
    /\ stLast' = "updateContext"
    /\ UNCHANGED stSnap
    /\ UNCHANGED <<agentVars, scriptVars, fallbackVars>>

\* the caller changes the value getState returned: it assigns its phase,
\* pushes on one of its arrays, or writes a field of its context
ChangeReturned ==
    /\ stSnap # NoSnapshot
    /\ \/ /\ \E p \in StorePhases \ {stSnap.phase} : stSnap' = [stSnap EXCEPT !.phase = p]
          /\ UNCHANGED stHeap
       \/ /\ \E o \in {stSnap.completedTasks, stSnap.failedAttempts, stSnap.memory,
                         stSnap.context} :
                /\ stHeap[o] < MaxEntries
                /\ stHeap' = Push(o)
          /\ UNCHANGED stSnap
    /\ stLast' = "changeReturned"
    /\ UNCHANGED <<stStore, stNext>>
    /\ UNCHANGED <<agentVars, scriptVars, fallbackVars>>

NextStore ==
    \/ GetState
    \/ SetPhase
    \/ AddCompletedTask
    \/ RecordFailedAttemptInStore
    \/ AddToMemory
    \/ UpdateContext
    \/ ChangeReturned

SpecStore == InitStore /\ [][NextStore]_vars

\* C22 as stated: no operation of the store changes a value getState has
\* returned, and no change the caller makes to a returned value changes the
\* store's state.
C22_Claim ==
    [][stSnap # NoSnapshot =>
          /\ stLast' \in {"addCompletedTask", "recordFailedAttempt", "addToMemory",
                          "updateContext", "setPhase"} => Deep(stSnap)' = Deep(stSnap)
          /\ stLast' = "changeReturned" => Deep(stStore)' = Deep(stStore)]_vars

\* C21 as stated: when no action can be extracted from the oracle's
\* response, strictly or loosely, decideNextAction returns the action the
\* fallback returns for the state.
C21_Claim == fbDecision.kind = "garbage" => fbDecision.action = FallbackOf(fbState)

\* C23 as stated: failedAttempts[tool] grows by one on each failure of the
\* tool, and a successful execution of the tool clears it, so that
\* shouldRetry(tool) is true again.
C23_Claim ==
    [][(pc = "execute" /\ pc' = "update" /\ decision \in Tools) =>
          IF result'.kind = "error"
          THEN failedAttempts'[decision] = failedAttempts[decision] + 1
          ELSE failedAttempts'[decision] = 0 /\ ShouldRetry(failedAttempts', decision)]_vars

\* C27 as stated: the phase is always one of initializing, searching,
\* analyzing, transforming, translating, locale, setup, integrating,
\* validating, testing, reporting, completed and failed.
C27_Claim ==
    phase \in {"initializing", "searching", "analyzing", "transforming", "translating",
               "locale", "setup", "integrating", "validating", "testing", "reporting",
               "completed", "failed"}

(***************************************************************************)
(* Runs with the oracle unavailable, on an empty working tree and on a     *)
(* tree of one component: every decision is getFallbackDecision's.         *)
(***************************************************************************)
InitScenario ==
    /\ AgentStart
    /\ fs \in {EmptyTree, OneFileTree}
    /\ maxIterations = ScenarioIterations
    /\ oracle = "down"
    /\ ScriptIdle
    /\ FallbackIdle
    /\ StoreIdle

NextScenario ==
    \/ Initialize
    \/ LoopTest
    \/ Tick
    \/ DecideNextAction
    \/ ExecuteSearch
    \/ UpdateStateFromResult
    \/ Return

SpecScenario == InitScenario /\ [][NextScenario]_vars

\* C24 as stated: on an empty working tree, with discovery succeeding and
\* the fallback deciding, discovery is chosen the first time and again at
\* most MaxRetries times, and the run ends with phase "failed".
C24_Claim ==
    (fs = EmptyTree /\ lastError = NoError /\ ~timedOut) =>
        /\ (pc = "execute" /\ decision = "search") => iterations <= MaxRetries + 1
        /\ pc = "returned" => phase = "failed"

\* C25 as stated: on a tree of one component in which discovery reports
\* strings, with every tool succeeding and the fallback deciding, the run
\* ends with phase "completed".
C25_Claim ==
    (fs # EmptyTree /\ ctxFiles = {"Header"} /\ lastError = NoError /\ ~timedOut
        /\ pc = "returned") => phase = "completed"

(***************************************************************************)
(* Runs in which the oracle answers the pipeline's first steps in order    *)
(* (search, analyze, transform) and then chooses among transforming again, *)
(* validating and rolling back.                                            *)
(***************************************************************************)
PipelinePrefix == <<"search", "analyze", "transform">>
PipelineFollowups == {"transform", "validate", "rollback"}

InitPipeline ==
    /\ AgentInit
    /\ maxIterations = PipelineIterations
    /\ oracle = "up"
    /\ ScriptIdle
    /\ FallbackIdle
    /\ StoreIdle

\* decideNextAction() with the oracle's answer parsed
DecidePipeline ==
    /\ pc = "decide"
    /\ pc' = "execute"
    /\ decision' \in (IF iterations <= Len(PipelinePrefix)
                      THEN {PipelinePrefix[iterations]}
                      ELSE PipelineFollowups)
    /\ UNCHANGED <<phase, iterations, maxIterations, timedOut, oracle, result, resultVars,
                   contextVars, diskVars, rollbackVars, errorVars>>
    /\ UNCHANGED <<reported, scriptVars, fallbackVars, storeVars>>

NextPipeline ==
    \/ Initialize
    \/ LoopTest
    \/ Tick
    \/ DecidePipeline
    \/ ExecuteSearch
    \/ ExecuteAnalyze
    \/ ExecuteTransform
    \/ ExecuteValidate
    \/ ExecuteRollback
    \/ UpdateStateFromResult
    \/ Return

SpecPipeline == InitPipeline /\ [][NextPipeline]_vars

\* C26 as stated: once a file's content has been captured in the backup
\* directory, no later step of the run, a second transformation of the file
\* included, changes the captured content.
C26_Claim ==
    [][\A f \in Files :
          (Exists(backup, f) /\ Exists(backup', f)) => backup'[f] = backup[f]]_vars

\* C28 as stated: after a transformation that transformed n >= 1 files, a
\* validation examines exactly those n files: validFiles + invalidFiles,
\* the number of files in its result, is n.
C28_Claim ==
    (pc = "update" /\ decision = "validate" /\ result.kind = "tool"
        /\ filesTransformed # Null /\ filesTransformed >= 1) =>
        Cardinality(result.files) = filesTransformed

\* C29: in a rollback every backed-up file whose own restore did not fail
\* is restored, whatever happened to the others, and the result counts the
\* files restored and holds one error entry for each file that failed.
C29_RestoreContinues ==
    [][(pc = "execute" /\ decision = "rollback" /\ pc' = "update") =>
          LET backedUp == FindBackupFiles(backup)
          IN  /\ restoreErrors' \subseteq backedUp
              /\ \A f \in backedUp \ restoreErrors' : fs'[f] = backup[f]
              /\ filesRestored' = Cardinality(backedUp \ restoreErrors')
              /\ filesRestored' + Cardinality(restoreErrors') = Cardinality(backedUp)]_vars

\* a rollback in which the restore of a transformed file failed and another
\* file was restored
C29_Witness ==
    /\ pc = "update" /\ decision = "rollback"
    /\ restoreErrors # {} /\ filesRestored >= 1
    /\ \E f \in SourceFiles \ restoreErrors : fs[f] = Original
    /\ \E f \in restoreErrors : fs[f] # Original

\* C30 as stated: a file whose restore failed still has its backup copy
\* when rollback returns.
C30_Claim ==
    (pc = "update" /\ decision = "rollback") => \A f \in restoreErrors : Exists(backup, f)

============================================================================
